---- MODULE Spec2Model ----
(***************************************************************************)
(* A model of the content pipeline of the-commons:                         *)
(*   csv-to-json.py            parse_value, csv_to_buildings_json, main    *)
(*   calculate-civic-scores.py calculate_civic_score, main                 *)
(*   fix-leaderboard-display.py  the leaderboard row template (new_code)   *)
(*                                                                         *)
(* Text is a sequence of one-character strings.  Python floats and         *)
(* JavaScript numbers are modelled as exact rationals [n, d] in lowest     *)
(* terms; the inputs are drawn so that every intermediate value is a       *)
(* dyadic rational of small magnitude, for which binary64 arithmetic is    *)
(* exact.  d = 0 encodes the special values: nan is 0/0, inf is 1/0 and    *)
(* -inf is -1/0.  The sign of a zero is not modelled.                      *)
(***************************************************************************)
EXTENDS Integers, Sequences, FiniteSets, TLC

VARIABLES
    prog,        \* which script or routine is running: "idle" when none is
    pc,          \* its position
    pvIn,        \* parse_value: the argument
    pvOut,       \* parse_value: the outcome
    building,    \* calculate_civic_score: the argument (a dict of text fields)
    calcOut,     \* calculate_civic_score: the outcome
    csvFile,     \* the buildings CSV on disk: [fields, rows]
    jsonFile,    \* buildings-data.json on disk: [exists, data]
    buildings,   \* main's list of rows (calculate-civic-scores.py)
    catalog,     \* buildings_by_category: [keys, items]
    idx,         \* the loop position of the running script
    ranking,     \* main's buildings_sorted: the row numbers in printed order
    err,         \* the exception that ended the last run, or NoError
    players,     \* the leaderboard's participants, in input order
    order,       \* the participants' input indices in sorted order
    lbRows       \* the leaderboard rows rendered so far

vars == <<prog, pc, pvIn, pvOut, building, calcOut, csvFile, jsonFile,
          buildings, catalog, ranking, idx, err, players, order, lbRows>>

(***************************************************************************)
(* Bounds of the model.                                                    *)
(***************************************************************************)
MaxLen == 3        \* longest text drawn from the alphabet for parse_value
MaxKeys == 2       \* most keys present in a record given to the calculator
MaxRows == 2       \* most data rows of the CSV
MaxPlayers == 4    \* most participants of a leaderboard

(***************************************************************************)
(* Text.                                                                   *)
(***************************************************************************)
DigitSeq == <<"0", "1", "2", "3", "4", "5", "6", "7", "8", "9">>
UpperSeq == <<"A", "B", "C", "D", "E", "F", "G", "H", "I", "J", "K", "L", "M",
              "N", "O", "P", "Q", "R", "S", "T", "U", "V", "W", "X", "Y", "Z">>
LowerSeq == <<"a", "b", "c", "d", "e", "f", "g", "h", "i", "j", "k", "l", "m",
              "n", "o", "p", "q", "r", "s", "t", "u", "v", "w", "x", "y", "z">>

Range(s) == {s[i] : i \in DOMAIN s}
Digits == Range(DigitSeq)
UpperLetters == Range(UpperSeq)
IsDigit(c) == c \in Digits
DigitVal(c) == (CHOOSE i \in DOMAIN DigitSeq : DigitSeq[i] = c) - 1
DigitChar(n) == DigitSeq[n + 1]

\* str.lower(), on the letters A-Z
LowerChar(c) ==
    IF c \in UpperLetters
    THEN LowerSeq[CHOOSE i \in DOMAIN UpperSeq : UpperSeq[i] = c]
    ELSE c
Lower(s) == [i \in DOMAIN s |-> LowerChar(s[i])]

\* the first position of s holding a character of cs, 0 when there is none
IndexOf(s, cs) ==
    IF \E i \in DOMAIN s : s[i] \in cs
    THEN CHOOSE i \in DOMAIN s : s[i] \in cs /\ \A j \in 1..(i - 1) : s[j] \notin cs
    ELSE 0
\* the last position of s holding a character of cs, 0 when there is none
LastIndexOf(s, cs) ==
    IF \E i \in DOMAIN s : s[i] \in cs
    THEN CHOOSE i \in DOMAIN s : s[i] \in cs /\ \A j \in (i + 1)..Len(s) : s[j] \notin cs
    ELSE 0
Tail0(s, i) == SubSeq(s, i + 1, Len(s))      \* s[i:]
Head0(s, i) == SubSeq(s, 1, i)               \* s[:i]

\* the white space int() and float() ignore around a number: tab, line feed,
\* vertical tab, form feed, carriage return, space, next line (U+0085) and
\* no-break space (U+00A0); the Unicode spaces above U+00FF, ignored as
\* well, are no characters of a TLA+ string.  The separators U+001C to
\* U+001F are not ignored.
Whitespace == {"\t", "\n", "", "\f", "\r", " ", "", " "}
Strip(s) ==
    LET keep == {i \in DOMAIN s : s[i] \notin Whitespace}
    IN  IF keep = {} THEN <<>>
        ELSE SubSeq(s, CHOOSE i \in keep : \A j \in keep : i <= j,
                       CHOOSE i \in keep : \A j \in keep : j <= i)

(***************************************************************************)
(* Exact arithmetic.                                                       *)
(***************************************************************************)
Abs(n) == IF n < 0 THEN -n ELSE n
RECURSIVE Gcd(_, _)
Gcd(a, b) == IF b = 0 THEN a ELSE Gcd(b, a % b)
RECURSIVE Pow10(_)
Pow10(k) == IF k = 0 THEN 1 ELSE 10 * Pow10(k - 1)

\* n/d in lowest terms with a positive denominator (d # 0)
Rat(n, d) ==
    LET g == Gcd(Abs(n), Abs(d))
        s == IF d < 0 THEN -1 ELSE 1
    IN  [n |-> s * (n \div g), d |-> s * (d \div g)]
RatInt(n) == [n |-> n, d |-> 1]
NaN == [n |-> 0, d |-> 0]
IsNaNRat(q) == q.d = 0 /\ q.n = 0
RatAdd(a, b) == Rat(a.n * b.d + b.n * a.d, a.d * b.d)
RatDiv(a, b) == Rat(a.n * b.d, a.d * b.n)
RatNeg(a) == [n |-> -a.n, d |-> a.d]
\* a < b on floats: False when either is nan; -inf is below and inf above
\* every finite number
RatLess(a, b) ==
    /\ ~IsNaNRat(a) /\ ~IsNaNRat(b)
    /\ IF a.d = 0 /\ b.d = 0 THEN a.n < b.n ELSE a.n * b.d < b.n * a.d
Floor(n, d) == n \div d                      \* d > 0: \div rounds down

\* the square root of a perfect square
ISqrt(n) == CHOOSE r \in 0..n : r * r = n
(***************************************************************************)
(* Python values: None, int, float, bool and str.                          *)
(***************************************************************************)
PyNone == [t |-> "None"]
PyInt(n) == [t |-> "int", v |-> n]
PyFloat(q) == [t |-> "float", v |-> q]
PyBool(b) == [t |-> "bool", v |-> b]
PyStr(s) == [t |-> "str", v |-> s]

(***************************************************************************)
(* int(text) and float(text): what they accept and the value they give.    *)
(* Digits are the ASCII digits; a single "_" may stand between two digits. *)
(***************************************************************************)
IsDigitRun(s) ==
    /\ Len(s) > 0
    /\ IsDigit(s[1])
    /\ IsDigit(s[Len(s)])
    /\ \A i \in DOMAIN s : IsDigit(s[i]) \/ s[i] = "_"
    /\ \A i \in 1..(Len(s) - 1) : ~(s[i] = "_" /\ s[i + 1] = "_")
RECURSIVE DigitsValue(_)
DigitsValue(s) ==
    IF s = <<>> THEN 0
    ELSE LET c == s[Len(s)]
             r == DigitsValue(Head0(s, Len(s) - 1))
         IN  IF c = "_" THEN r ELSE 10 * r + DigitVal(c)
\* the number of digits of a digit run
DigitCount(s) == Cardinality({i \in DOMAIN s : IsDigit(s[i])})

HasSign(s) == Len(s) > 0 /\ s[1] \in {"+", "-"}
Unsigned(s) == IF HasSign(s) THEN Tail0(s, 1) ELSE s
SignOf(s) == IF Len(s) > 0 /\ s[1] = "-" THEN -1 ELSE 1

\* int(s) returns (otherwise it raises ValueError)
IntParses(s) == IsDigitRun(Unsigned(Strip(s)))
IntValue(s) == SignOf(Strip(s)) * DigitsValue(Unsigned(Strip(s)))

\* the parts of an unsigned decimal literal: mantissa and exponent
ExpAt(u) == IndexOf(u, {"e", "E"})
Mantissa(u) == IF ExpAt(u) = 0 THEN u ELSE Head0(u, ExpAt(u) - 1)
Exponent(u) == IF ExpAt(u) = 0 THEN <<>> ELSE Tail0(u, ExpAt(u))
DotAt(m) == IndexOf(m, {"."})
IntPart(m) == IF DotAt(m) = 0 THEN m ELSE Head0(m, DotAt(m) - 1)
FracPart(m) == IF DotAt(m) = 0 THEN <<>> ELSE Tail0(m, DotAt(m))
IsMantissa(m) ==
    /\ IntPart(m) = <<>> \/ IsDigitRun(IntPart(m))
    /\ FracPart(m) = <<>> \/ IsDigitRun(FracPart(m))
    /\ ~(IntPart(m) = <<>> /\ FracPart(m) = <<>>)
IsDecimal(u) ==
    /\ IsMantissa(Mantissa(u))
    /\ ExpAt(u) # 0 => IsDigitRun(Unsigned(Exponent(u)))
InfWords == {<<"i", "n", "f">>, <<"i", "n", "f", "i", "n", "i", "t", "y">>}
NanWord == <<"n", "a", "n">>
DecimalValue(u) ==
    LET m == Mantissa(u)
        fd == DigitCount(FracPart(m))
        digits == DigitsValue(IntPart(m)) * Pow10(fd) + DigitsValue(FracPart(m))
        e == IF ExpAt(u) = 0 THEN 0
             ELSE SignOf(Exponent(u)) * DigitsValue(Unsigned(Exponent(u)))
    IN  IF e >= fd THEN Rat(digits * Pow10(e - fd), 1)
        ELSE Rat(digits, Pow10(fd - e))

\* float(s) returns (otherwise it raises ValueError)
FloatParses(s) ==
    LET u == Unsigned(Strip(s))
    IN  IsDecimal(u) \/ Lower(u) \in InfWords \/ Lower(u) = NanWord
FloatValue(s) ==
    LET u == Unsigned(Strip(s))
        sg == SignOf(Strip(s))
    IN  IF Lower(u) = NanWord THEN NaN
        ELSE IF Lower(u) \in InfWords THEN [n |-> sg, d |-> 0]
        ELSE IF sg < 0 THEN RatNeg(DecimalValue(u)) ELSE DecimalValue(u)

(***************************************************************************)
(* csv-to-json.py: parse_value.                                            *)
(***************************************************************************)
TrueWord == <<"t", "r", "u", "e">>
FalseWord == <<"f", "a", "l", "s", "e">>

\* (mutant) the boolean words compared without lower()
parse_value_except_CaseSensitive(value) ==
    IF value \in {TrueWord, FalseWord}
    THEN PyBool(value = TrueWord)
    ELSE PyStr(value)
\* the except ValueError branch: a boolean word, else the text itself
parse_value_except(value) ==
    IF Lower(value) \in {TrueWord, FalseWord}
    THEN PyBool(Lower(value) = TrueWord)
    ELSE PyStr(value)

\* the float() attempt of the try block
parse_value_float(value) ==
    IF FloatParses(value)
    THEN PyFloat(FloatValue(value))
    ELSE parse_value_except(value)

\* the int() attempt of the try block, made when the text has no "."
parse_value_int(value) ==
    IF IntParses(value)
    THEN PyInt(IntValue(value))
    ELSE parse_value_except(value)

parse_value(value) ==
    IF value = <<>> THEN PyNone
    ELSE IF "." \notin Range(value)
         THEN parse_value_int(value)
         ELSE parse_value_float(value)
(***************************************************************************)
(* The text of a number.  repr(float), and JavaScript's ToString of a      *)
(* number, write the fewest significant digits that read back as the same  *)
(* double (17 always do), the nearest such digits, a tie                   *)
(* going to the even last digit.  A value here is a rational that is a     *)
(* double (its denominator is a power of two), or a decimal of at most     *)
(* 15 significant digits, which stands for the double nearest to it and    *)
(* is written with exactly its own digits.  Digits are kept in sequences,  *)
(* most significant first, so that no product overflows.                   *)
(***************************************************************************)
RECURSIVE NatText(_)
NatText(n) ==
    IF n < 10 THEN <<DigitChar(n)>>
    ELSE NatText(n \div 10) \o <<DigitChar(n % 10)>>

\* the digits of n, none for zero
RECURSIVE BigOfNat(_)
BigOfNat(n) == IF n = 0 THEN <<>> ELSE Append(BigOfNat(n \div 10), n % 10)
\* the digits of s * m + c, for m and c below 10^7
RECURSIVE BigMulAdd(_, _, _)
BigMulAdd(s, m, c) ==
    IF s = <<>> THEN BigOfNat(c)
    ELSE LET t == s[Len(s)] * m + c
         IN  Append(BigMulAdd(Head0(s, Len(s) - 1), m, t \div 10), t % 10)
RECURSIVE SmallPow(_, _)
SmallPow(m, k) == IF k = 0 THEN 1 ELSE m * SmallPow(m, k - 1)
\* s * m^k, for m = 2 and m = 5, ten factors at a time
RECURSIVE BigTimesPow(_, _, _)
BigTimesPow(s, m, k) ==
    IF k <= 10 THEN BigMulAdd(s, SmallPow(m, k), 0)
    ELSE BigTimesPow(BigMulAdd(s, SmallPow(m, 10), 0), m, k - 10)
BigStrip(s) ==
    LET nz == {i \in DOMAIN s : s[i] # 0}
    IN  IF nz = {} THEN <<>> ELSE Tail0(s, (CHOOSE i \in nz : \A j \in nz : i <= j) - 1)
BigLeq(x, y) ==
    LET u == BigStrip(x)
        v == BigStrip(y)
    IN  \/ Len(u) < Len(v)
        \/ /\ Len(u) = Len(v)
           /\ \/ u = v
              \/ \E i \in DOMAIN u : u[i] < v[i] /\ \A j \in 1..(i - 1) : u[j] = v[j]
StripTrailingZeros(s) ==
    LET nz == {i \in DOMAIN s : s[i] # 0}
    IN  IF nz = {} THEN <<>> ELSE Head0(s, CHOOSE i \in nz : \A j \in nz : j <= i)

\* how often p divides n (n > 0)
RECURSIVE Multiplicity(_, _)
Multiplicity(n, p) == IF n % p = 0 THEN 1 + Multiplicity(n \div p, p) ELSE 0
RECURSIVE BitLength(_)
BitLength(n) == IF n = 0 THEN 0 ELSE 1 + BitLength(n \div 2)

\* the decimal expansion of |q|, q finite and not zero, its denominator
\* 2^a * 5^c: |q| = 0.d1 d2 ... ds * 10^decpt, with scale digits behind the
\* point; all is |q| * 10^scale
ExactOf(all, k) ==
    [digits |-> StripTrailingZeros(all), decpt |-> Len(all) - k, scale |-> k]
ExactDecimal(q) ==
    LET a == Multiplicity(q.d, 2)
        c == Multiplicity(q.d, 5)
    IN  IF a > c
        THEN ExactOf(BigTimesPow(BigOfNat(Abs(q.n)), 5, a - c), a)
        ELSE ExactOf(BigTimesPow(BigOfNat(Abs(q.n)), 2, c - a), c)
\* the decimal of j digits nearest to e lies above it: the digits behind
\* the first j are more than a half, or a half and the j-th digit is odd
RoundsUp(e, j) ==
    \/ e.digits[j + 1] > 5
    \/ /\ e.digits[j + 1] = 5
       /\ \/ \E i \in (j + 2)..Len(e.digits) : e.digits[i] # 0
          \/ e.digits[j] % 2 = 1
\* the first j digits of e, as they are (the decimal below e) or with one
\* added to the last (the decimal above)
RoundedTo(e, j, up) ==
    IF up
    THEN [digits |-> StripTrailingZeros(BigMulAdd(Head0(e.digits, j), 1, 1)),
          decpt |-> e.decpt + Len(BigMulAdd(Head0(e.digits, j), 1, 1)) - j]
    ELSE [digits |-> StripTrailingZeros(Head0(e.digits, j)), decpt |-> e.decpt]
\* of the decimals of j digits below and above, those that read back, the
\* nearer is written: "none" when neither reads back
Nearer(below, above, up) ==
    IF below /\ above THEN (IF up THEN "up" ELSE "down")
    ELSE IF below THEN "down"
    ELSE IF above THEN "up"
    ELSE "none"
\* a decimal reads back as the double q = n / 2^k when it is no further from
\* q than half the distance to the next double: 2^(b - 54 - k) for n of b
\* bits, and half of that below a power of two.  The digits behind the
\* first j are the distance of the decimal below, in units of 10^-k, and
\* what they lack to a power of ten (nine minus each digit, plus one) the
\* distance of the decimal above.
Direction(q, e, j) ==
    Nearer(BigLeq(BigTimesPow(Tail0(e.digits, j), 2,
                              (IF Abs(q.n) = 1 THEN 55 ELSE 54) - BitLength(Abs(q.n))),
                  BigTimesPow(<<1>>, 5, e.scale)),
           BigLeq(BigTimesPow(BigMulAdd([i \in 1..(Len(e.digits) - j) |-> 9 - e.digits[j + i]],
                                        1, 1),
                              2, 54 - BitLength(Abs(q.n))),
                  BigTimesPow(<<1>>, 5, e.scale)),
           RoundsUp(e, j))
\* the fewest digits, j or more, that read back: the digits of e when they
\* are 15 at most or q is a decimal and no double
RECURSIVE ShortestFrom(_, _, _)
ShortestFrom(q, e, j) ==
    IF j >= Len(e.digits) \/ Len(e.digits) <= 15 \/ q.d % 5 = 0
    THEN [digits |-> e.digits, decpt |-> e.decpt]
    ELSE IF Direction(q, e, j) = "none" THEN ShortestFrom(q, e, j + 1)
    ELSE RoundedTo(e, j, Direction(q, e, j) = "up")
\* the digits repr and ToString write for q
ShortestDigits(q) == ShortestFrom(q, ExactDecimal(q), 1)
DigitText(ds) == [i \in DOMAIN ds |-> DigitChar(ds[i])]
Zeros(n) == [i \in 1..n |-> "0"]
\* d.ddd, the mantissa of the exponent notation
ExpMantissa(ds) ==
    IF Len(ds) = 1 THEN DigitText(ds)
    ELSE <<DigitChar(ds[1])>> \o <<".">> \o DigitText(Tail0(ds, 1))
\* the digits with the point behind the first decpt of them, and dot0 behind
\* an integer
FixedNotation(ds, decpt, dot0) ==
    IF decpt <= 0 THEN <<"0", ".">> \o Zeros(-decpt) \o DigitText(ds)
    ELSE IF decpt >= Len(ds) THEN DigitText(ds) \o Zeros(decpt - Len(ds)) \o dot0
    ELSE DigitText(Head0(ds, decpt)) \o <<".">> \o DigitText(Tail0(ds, decpt))

\* repr(x), str(x) and f"{x}" of a float: fixed notation for
\* 1e-4 <= |x| < 1e16, with ".0" behind an integer, otherwise d.ddde-XX
PyNotation(sd) ==
    IF sd.decpt > -4 /\ sd.decpt <= 16
    THEN FixedNotation(sd.digits, sd.decpt, <<".", "0">>)
    ELSE ExpMantissa(sd.digits) \o <<"e">>
         \o (IF sd.decpt < 1 THEN <<"-">> ELSE <<"+">>)
         \o (IF Abs(sd.decpt - 1) < 10 THEN <<"0">> ELSE <<>>)
         \o NatText(Abs(sd.decpt - 1))
FloatRepr(q) ==
    IF IsNaNRat(q) THEN NanWord
    ELSE IF q.d = 0 THEN (IF q.n < 0 THEN <<"-">> ELSE <<>>) \o <<"i", "n", "f">>
    ELSE IF q.n = 0 THEN <<"0", ".", "0">>
    ELSE (IF q.n < 0 THEN <<"-">> ELSE <<>>) \o PyNotation(ShortestDigits(q))

\* the integer nearest n/d (d > 0), a tie going to the even one: the rule
\* of round() and of the format .1f on an exactly represented value
RoundHalfEven(n, d) ==
    LET f == Floor(n, d)
        r2 == 2 * (n - f * d)
    IN  IF r2 < d THEN f
        ELSE IF r2 > d THEN f + 1
        ELSE IF f % 2 = 0 THEN f ELSE f + 1
\* round(x, 1)
Round1(q) == Rat(RoundHalfEven(10 * q.n, q.d), 10)
\* f"{x:.1f}"
Fixed1(q) ==
    LET t == RoundHalfEven(10 * q.n, q.d)
    IN  (IF q.n < 0 THEN <<"-">> ELSE <<>>)
        \o NatText(Abs(t) \div 10) \o <<".", DigitChar(Abs(t) % 10)>>

PyRepr(v) ==
    CASE v.t = "int" -> (IF v.v < 0 THEN <<"-">> ELSE <<>>) \o NatText(Abs(v.v))
      [] v.t = "float" -> FloatRepr(v.v)
      [] v.t = "str" -> v.v

\* truthiness, as "or" tests it
Truthy(v) ==
    CASE v.t = "None" -> FALSE
      [] v.t = "int" -> v.v # 0
      [] v.t = "float" -> v.v.n # 0 \/ v.v.d = 0
      [] v.t = "bool" -> v.v
      [] v.t = "str" -> v.v # <<>>
\* float(v) returns (otherwise it raises ValueError)
CanFloat(v) == v.t \in {"int", "float", "bool"} \/ (v.t = "str" /\ FloatParses(v.v))
ToFloat(v) ==
    CASE v.t = "int" -> RatInt(v.v)
      [] v.t = "float" -> v.v
      [] v.t = "bool" -> RatInt(IF v.v THEN 1 ELSE 0)
      [] v.t = "str" -> FloatValue(v.v)
\* the number a Python int or float denotes
NumValue(v) == IF v.t = "int" THEN RatInt(v.v) ELSE v.v
\* (mutant) the root forgotten: impact / attenuation
Sqrt_Forgotten(q) == q
\* math.sqrt, on the rationals whose root is rational
Sqrt(q) == Rat(ISqrt(q.n), ISqrt(q.d))

(***************************************************************************)
(* calculate-civic-scores.py: calculate_civic_score.                       *)
(***************************************************************************)
dimensions == <<
    <<"culture_impact", "culture_attenuation">>,
    <<"affordability_impact", "affordability_attenuation">>,
    <<"resilience_impact", "resilience_attenuation">>,
    <<"environment_impact", "environment_attenuation">>,
    <<"noise_impact", "noise_attenuation">>,
    <<"safety_impact", "safety_attenuation">> >>

\* impact_key.replace('_impact', '')
dimension_name(impact_key) ==
    CASE impact_key = "culture_impact" -> "culture"
      [] impact_key = "affordability_impact" -> "affordability"
      [] impact_key = "resilience_impact" -> "resilience"
      [] impact_key = "environment_impact" -> "environment"
      [] impact_key = "noise_impact" -> "noise"
      [] impact_key = "safety_impact" -> "safety"

\* building.get(key, default) or default
GetOr(b, key, default) ==
    LET got == IF key \in DOMAIN b THEN PyStr(b[key]) ELSE PyInt(default)
    IN  IF Truthy(got) THEN got ELSE PyInt(default)

ValueError(msg) == [ok |-> FALSE, error |-> "ValueError", msg |-> msg]

\* the guard against a division by zero: the attenuation the formula uses
effective_attenuation(attenuation) ==
    IF attenuation.n = 0 /\ attenuation.d # 0
    THEN PyInt(1)
    ELSE PyFloat(attenuation)

\* the loop over the dimensions, from the i-th on
RECURSIVE calc_loop(_, _, _, _)
calc_loop(b, i, civic_score, breakdown) ==
    IF i > Len(dimensions)
    THEN [ok |-> TRUE, score |-> Round1(civic_score), breakdown |-> breakdown]
    ELSE
    LET impact_key == dimensions[i][1]
        atten_key == dimensions[i][2]
        rawImpact == GetOr(b, impact_key, 0)
        rawAtten == GetOr(b, atten_key, 1)
    IN  IF ~CanFloat(rawImpact) \/ ~CanFloat(rawAtten)
        THEN ValueError("could not convert string to float")
        ELSE
        LET impact == ToFloat(rawImpact)
            attenuation == effective_attenuation(ToFloat(rawAtten))
        IN  IF NumValue(attenuation).n < 0
            THEN ValueError("math domain error")
            ELSE
            LET weighted_impact == RatDiv(impact, Sqrt(NumValue(attenuation)))
                line == [name |-> dimension_name(impact_key),
                         impact |-> FloatRepr(impact),
                         attenuation |-> PyRepr(attenuation),
                         weighted |-> Fixed1(weighted_impact)]
            IN  calc_loop(b, i + 1, RatAdd(civic_score, weighted_impact),
                          Append(breakdown, line))

calculate_civic_score(b) == calc_loop(b, 1, RatInt(0), <<>>)
(***************************************************************************)
(* The values of the variables a specification does not use.               *)
(***************************************************************************)
Nothing == [t |-> "nothing"]
NoError == [error |-> "none"]
NoFile == [exists |-> FALSE]
EmptyCatalog == [keys |-> <<>>, items |-> <<>>]

IdleParse == pvIn = <<>> /\ pvOut = Nothing
IdleCalc == building = <<>> /\ calcOut = Nothing
IdleFiles ==
    /\ csvFile = NoFile
    /\ jsonFile = NoFile
    /\ buildings = <<>>
    /\ catalog = Nothing
    /\ ranking = <<>>
    /\ idx = 0
    /\ err = NoError
IdleBoard == players = <<>> /\ order = <<>> /\ lbRows = <<>>

parseVars == <<pvIn, pvOut>>
calcVars == <<building, calcOut>>
fileVars == <<csvFile, jsonFile, buildings, catalog, ranking, idx, err>>
boardVars == <<players, order, lbRows>>

(***************************************************************************)
(* parse_value applied to a text: the texts of at most MaxLen characters   *)
(* over Sigma, and the words of the specification's examples.              *)
(***************************************************************************)
Sigma == {"3", "0", ".", "-", "e", "a"}
Texts(n) == UNION {[1..k -> Sigma] : k \in 0..n}
Words == {
    <<"t", "r", "u", "e">>, <<"f", "a", "l", "s", "e">>,
    <<"T", "r", "u", "e">>, <<"F", "A", "L", "S", "E">>,
    <<"t", "r", "u", "e", ".">>, <<"n", "o", "r", "t", "h">>,
    <<"3", "a", "b", "c">>, <<"3", ".", "5">>, <<"1", "e", "5">>,
    <<"1", "e", "-", "0", "5">>, <<"n", "a", "n">>, <<"i", "n", "f">>,
    <<" ", "3">>, <<"\t", "3">>, <<"3", "\n">>, <<"\n", "3", ".", "5", "\t">>,
    <<"\r", "t", "r", "u", "e">>, <<"1", "_", "0">>, <<"+", "7">>, <<"1", "2", ".", "2", "5">> }
ParseInputs == Texts(MaxLen) \cup Words

InitParse ==
    /\ prog = "parse_value"
    /\ pc = "call"
    /\ pvIn \in ParseInputs
    /\ pvOut = Nothing
    /\ IdleCalc /\ IdleFiles /\ IdleBoard

ParseValue ==
    /\ prog = "parse_value"
    /\ pc = "call"
    /\ pvOut' = parse_value(pvIn)
    /\ pc' = "return"
    /\ UNCHANGED <<prog, pvIn, calcVars, fileVars, boardVars>>

NextParse == ParseValue
SpecParse == InitParse /\ [][NextParse]_vars

(***************************************************************************)
(* calculate_civic_score applied to a record: at most MaxKeys of the       *)
(* twelve keys are present, each with a text of its pool.  The numeric     *)
(* texts are dyadic and the positive attenuations are perfect squares.     *)
(***************************************************************************)
ImpactKeys == {dimensions[i][1] : i \in DOMAIN dimensions}
AttenKeys == {dimensions[i][2] : i \in DOMAIN dimensions}
ImpactPool == {<<>>, <<"1", "0">>, <<"-", "3">>, <<"2", ".", "5">>, <<"a", "b", "c">>}
AttenPool == {<<>>, <<"4">>, <<"0">>, <<"0", ".", "0">>, <<"-", "4">>, <<"1", "6">>,
              <<"0", ".", "2", "5">>, <<"x">>, <<"\t", "4">>}
Records(keys) ==
    {b \in [keys -> ImpactPool \cup AttenPool] :
        \A k \in keys : b[k] \in (IF k \in ImpactKeys THEN ImpactPool ELSE AttenPool)}
CalcInputs ==
    UNION {Records(keys) :
             keys \in {K \in SUBSET (ImpactKeys \cup AttenKeys) : Cardinality(K) <= MaxKeys}}

InitCalc ==
    /\ prog = "calculate_civic_score"
    /\ pc = "call"
    /\ building \in CalcInputs
    /\ calcOut = Nothing
    /\ IdleParse /\ IdleFiles /\ IdleBoard

Calculate ==
    /\ prog = "calculate_civic_score"
    /\ pc = "call"
    /\ calcOut' = calculate_civic_score(building)
    /\ pc' = "return"
    /\ UNCHANGED <<prog, building, parseVars, fileVars, boardVars>>

NextCalc == Calculate
SpecCalc == InitCalc /\ [][NextCalc]_vars
(***************************************************************************)
(* What the specification says of the calculator, in its own terms.        *)
(***************************************************************************)
DimensionOrder == <<"culture", "affordability", "resilience", "environment",
                    "noise", "safety">>
Supplied(b, key) == key \in DOMAIN b /\ b[key] # <<>>
Numeric(b, key) == Supplied(b, key) /\ FloatParses(b[key])
\* every supplied field is numeric text
AllNumeric(b) == \A k \in DOMAIN b : b[k] = <<>> \/ FloatParses(b[k])
\* no supplied attenuation is a negative number
NoNegativeAttenuation(b) ==
    \A k \in DOMAIN b \cap AttenKeys : Numeric(b, k) => FloatValue(b[k]).n >= 0
\* the impact and the effective attenuation of the i-th dimension
SpecImpact(b, i) ==
    IF Supplied(b, dimensions[i][1]) THEN FloatValue(b[dimensions[i][1]]) ELSE RatInt(0)
SpecAttenuation(b, i) ==
    LET a == IF Supplied(b, dimensions[i][2])
             THEN FloatValue(b[dimensions[i][2]]) ELSE RatInt(1)
    IN  IF a.n = 0 THEN RatInt(1) ELSE a
SpecWeighted(b, i) ==
    LET a == SpecAttenuation(b, i)
    IN  Rat(SpecImpact(b, i).n * a.d * ISqrt(a.d), SpecImpact(b, i).d * a.d * ISqrt(a.n))
RECURSIVE SpecSum(_, _)
SpecSum(b, i) == IF i = 0 THEN RatInt(0) ELSE RatAdd(SpecSum(b, i - 1), SpecWeighted(b, i))
Returned == prog = "calculate_civic_score" /\ pc = "return"

\* C2 (as claimed): whenever the fields are numeric, every dimension whose
\* supplied attenuation is zero or negative is computed with the attenuation
\* 1: the call returns and the dimension contributes exactly its impact.
C2_NonPositiveAttenuationIsOne ==
    (Returned /\ AllNumeric(building)) =>
        \A i \in DOMAIN dimensions :
            (Numeric(building, dimensions[i][2])
                /\ ~RatLess(RatInt(0), FloatValue(building[dimensions[i][2]])))
            => /\ calcOut.ok
               /\ FloatValue(calcOut.breakdown[i].attenuation) = RatInt(1)
               /\ calcOut.breakdown[i].weighted = Fixed1(SpecImpact(building, i))

\* C3 (as claimed): whatever the text of a field, the call returns a score and
\* a breakdown; an absent, empty or non-numeric impact counts as 0 and an
\* absent, empty or non-numeric attenuation as 1.  (Negative attenuations,
\* the case of C2, are left out.)
C3_TextNeverFails ==
    (Returned /\ NoNegativeAttenuation(building)) =>
        /\ calcOut.ok
        /\ \A i \in DOMAIN dimensions :
            /\ ~Numeric(building, dimensions[i][1])
                => FloatValue(calcOut.breakdown[i].impact) = RatInt(0)
            /\ ~Numeric(building, dimensions[i][2])
                => FloatValue(calcOut.breakdown[i].attenuation) = RatInt(1)

\* C8: a call that returns gives the sum over the six dimensions of
\* impact / sqrt(effective attenuation) rounded to one decimal (a multiple of
\* 0.1 at most 0.05 from the exact sum), and six breakdown lines in the fixed
\* order of the dimensions; one dimension with impact 10 and attenuation 4,
\* the others absent, gives 5.0.
SingleDimension(i) ==
    (dimensions[i][1] :> <<"1", "0">>) @@ (dimensions[i][2] :> <<"4">>)
C8_ScoreIsRoundedSum ==
    (Returned /\ calcOut.ok) =>
        LET diff == RatAdd(calcOut.score, RatNeg(SpecSum(building, Len(dimensions))))
        IN  /\ 10 % calcOut.score.d = 0
            /\ 20 * Abs(diff.n) <= diff.d
            /\ Len(calcOut.breakdown) = Len(DimensionOrder)
            /\ \A i \in DOMAIN DimensionOrder :
                   /\ calcOut.breakdown[i].name = DimensionOrder[i]
                   /\ calcOut.breakdown[i].weighted = Fixed1(SpecWeighted(building, i))
            /\ \A i \in DOMAIN dimensions :
                   building = SingleDimension(i) => calcOut.score = RatInt(5)
\* a call on the record {noise_impact: "10", noise_attenuation: "4"} returned 5.0
C8_Witness ==
    /\ Returned
    /\ building = SingleDimension(5)
    /\ calcOut.ok
    /\ calcOut.score = RatInt(5)
    /\ calcOut.breakdown[5].weighted = <<"5", ".", "0">>

(***************************************************************************)
(* What the specification says of parse_value.                             *)
(***************************************************************************)
Parsed == prog = "parse_value" /\ pc = "return"
HasDot(s) == "." \in Range(s)
BooleanOrText(s) ==
    IF Lower(s) = TrueWord THEN PyBool(TRUE)
    ELSE IF Lower(s) = FalseWord THEN PyBool(FALSE)
    ELSE PyStr(s)

\* C6 (as claimed): the rules in order: empty gives None; no decimal point
\* and an integer gives int; otherwise a text that parses as a real gives
\* float; otherwise a boolean word gives bool; otherwise the text itself.
C6_OrderedRules ==
    Parsed =>
        pvOut = IF pvIn = <<>> THEN PyNone
                ELSE IF ~HasDot(pvIn) /\ IntParses(pvIn) THEN PyInt(IntValue(pvIn))
                ELSE IF FloatParses(pvIn) THEN PyFloat(FloatValue(pvIn))
                ELSE BooleanOrText(pvIn)

\* C6 (amended): as above, but the real parse is attempted only on a text
\* that holds a decimal point; a text without one that is no integer goes on
\* to the boolean and text rules even when it parses as a real.
C6_OrderedRulesWithDot ==
    Parsed =>
        pvOut = IF pvIn = <<>> THEN PyNone
                ELSE IF ~HasDot(pvIn) /\ IntParses(pvIn) THEN PyInt(IntValue(pvIn))
                ELSE IF HasDot(pvIn) /\ FloatParses(pvIn) THEN PyFloat(FloatValue(pvIn))
                ELSE BooleanOrText(pvIn)
\* a text without a decimal point that parses as a real and not as an
\* integer came back as text
C6_Witness ==
    /\ Parsed
    /\ ~HasDot(pvIn) /\ ~IntParses(pvIn) /\ FloatParses(pvIn)
    /\ pvOut = PyStr(pvIn)
(***************************************************************************)
(* csv-to-json.py: csv_to_buildings_json and main.                         *)
(*                                                                         *)
(* A CSV file is its header (fieldnames) and its data rows; a row is what  *)
(* csv.DictReader yields for a line with as many cells as the header: a    *)
(* function from the header's names to texts.                              *)
(***************************************************************************)
EconomicsColumns == <<"buildCost", "constructionDays", "maxRevenue",
                      "maintenanceCost", "decayRate">>
ResourceColumns == <<"jobsProvided", "jobsRequired", "energyProvided",
                     "energyRequired", "educationProvided", "educationRequired",
                     "foodProvided", "foodRequired", "housingProvided",
                     "housingRequired", "healthcareProvided", "healthcareRequired">>
LivabilityColumns == <<"culture_impact", "culture_attenuation",
                       "affordability_impact", "affordability_attenuation",
                       "resilience_impact", "resilience_attenuation",
                       "environment_impact", "environment_attenuation",
                       "noise_impact", "noise_attenuation",
                       "safety_impact", "safety_attenuation">>
\* the columns in the order the record literal reads them
Columns == <<"id", "name", "category", "description", "graphicsFile",
             "isDefault", "civicScore">>
           \o EconomicsColumns \o ResourceColumns \o LivabilityColumns

KeyError(key) == [error |-> "KeyError", key |-> key]
\* the first name of the reading order that the row lacks: the KeyError raised
FirstMissing(row, reads) == reads[CHOOSE i \in DOMAIN reads :
                                    /\ reads[i] \notin DOMAIN row
                                    /\ \A j \in 1..(i - 1) : reads[j] \in DOMAIN row]
Lacks(row, reads) == \E i \in DOMAIN reads : reads[i] \notin DOMAIN row

\* row['graphicsFile'].split('/')[-1]
LastSegment(s) == Tail0(s, LastIndexOf(s, {"/"}))
FallbackPath == <<"a", "s", "s", "e", "t", "s", "/", "b", "u", "i", "l", "d", "i", "n", "g", "s",
                  "/", "d", "e", "f", "a", "u", "l", "t", ".", "s", "v", "g">>

\* (mutant) the check for an empty id left out
skip_row_Never(row) == FALSE
\* if not row['id']: continue
skip_row(row) == row["id"] = <<>>

\* "civicScore": parse_value(row['civicScore'])
record_civicScore(row) == parse_value(row["civicScore"])

\* the building record of a row that has every column
building_record(row) ==
    [id |-> row["id"],
     name |-> row["name"],
     category |-> row["category"],
     description |-> row["description"],
     graphicsFile |-> row["graphicsFile"],
     isDefault |-> parse_value(row["isDefault"]),
     civicScore |-> record_civicScore(row),
     economics |-> [c \in Range(EconomicsColumns) |-> parse_value(row[c])],
     resources |-> [c \in Range(ResourceColumns) |-> parse_value(row[c])],
     livability |-> [i \in DOMAIN dimensions |->
                        [name |-> dimension_name(dimensions[i][1]),
                         impact |-> parse_value(row[dimensions[i][1]]),
                         attenuation |-> parse_value(row[dimensions[i][2]])]],
     graphics |-> [filename |-> LastSegment(row["graphicsFile"]),
                   path |-> row["graphicsFile"],
                   fallbackPath |-> FallbackPath],
     images |-> [built |-> row["graphicsFile"]]]

\* buildings_by_category, a dict in insertion order: keys[i] maps to items[i]
KeyAt(cat, category) == CHOOSE i \in DOMAIN cat.keys : cat.keys[i] = category
\* (mutant) the building put at the head of its category's list
group_by_category_Prepend(cat, b) ==
    IF b.category \in Range(cat.keys)
    THEN [cat EXCEPT !.items[KeyAt(cat, b.category)] = <<b>> \o @]
    ELSE [keys |-> Append(cat.keys, b.category), items |-> Append(cat.items, <<b>>)]
\* if category not in buildings_by_category: ... = []; then .append(building)
group_by_category(cat, b) ==
    IF b.category \in Range(cat.keys)
    THEN [cat EXCEPT !.items[KeyAt(cat, b.category)] = Append(@, b)]
    ELSE [keys |-> Append(cat.keys, b.category), items |-> Append(cat.items, <<b>>)]

Stopped == pc \in {"idle", "exit0", "exit1"}

\* python csv-to-json.py: open the CSV and start the loop with an empty dict
CatalogStart ==
    /\ Stopped
    /\ prog' = "csv-to-json"
    /\ pc' = "rows"
    /\ idx' = 1
    /\ catalog' = EmptyCatalog
    /\ buildings' = <<>>
    /\ ranking' = <<>>
    /\ err' = NoError
    /\ UNCHANGED <<csvFile, jsonFile, parseVars, calcVars, boardVars>>

\* one pass of "for row in reader"
CatalogRow ==
    /\ prog = "csv-to-json" /\ pc = "rows"
    /\ idx <= Len(csvFile.rows)
    /\ LET row == csvFile.rows[idx]
       IN  \/ /\ "id" \notin DOMAIN row
              /\ err' = KeyError("id")
              /\ pc' = "exit1"
              /\ catalog' = Nothing
              /\ UNCHANGED idx
           \/ /\ "id" \in DOMAIN row
              /\ skip_row(row)
              /\ idx' = idx + 1
              /\ UNCHANGED <<pc, catalog, err>>
           \/ /\ "id" \in DOMAIN row
              /\ ~skip_row(row)
              /\ Lacks(row, Columns)
              /\ err' = KeyError(FirstMissing(row, Columns))
              /\ pc' = "exit1"
              /\ catalog' = Nothing
              /\ UNCHANGED idx
           \/ /\ "id" \in DOMAIN row
              /\ ~skip_row(row)
              /\ ~Lacks(row, Columns)
              /\ catalog' = group_by_category(catalog, building_record(row))
              /\ idx' = idx + 1
              /\ UNCHANGED <<pc, err>>
    /\ UNCHANGED <<prog, csvFile, jsonFile, buildings, ranking, parseVars, calcVars, boardVars>>

\* the loop is over: return the dict, and main dumps it to buildings-data.json
CatalogWrite ==
    /\ prog = "csv-to-json" /\ pc = "rows"
    /\ idx > Len(csvFile.rows)
    /\ jsonFile' = [exists |-> TRUE, data |-> catalog]
    /\ pc' = "exit0"
    /\ UNCHANGED <<prog, csvFile, buildings, catalog, ranking, idx, err,
                   parseVars, calcVars, boardVars>>
(***************************************************************************)
(* calculate-civic-scores.py: main.                                        *)
(***************************************************************************)
\* building[key] = text
SetKey(b, key, text) == [k \in DOMAIN b \cup {key} |-> IF k = key THEN text ELSE b[k]]

\* list.sort on fewer than 64 elements (CPython 3.11): the run at the head of
\* the list is found by comparing neighbours, and every later element is put
\* in by a binary search.  With keys that are totally ordered the result is
\* the stable sort; with a nan among them it is what these comparisons give.
\* count_run: the length of the run at the head of s, strictly descending
\* when the second key is below the first and not descending otherwise
count_run(s, key) ==
    IF Len(s) < 2 THEN [n |-> Len(s), descending |-> FALSE]
    ELSE LET descending == RatLess(key[s[2]], key[s[1]])
             goes(k) == RatLess(key[s[k]], key[s[k - 1]]) = descending
         IN  [n |-> CHOOSE n \in 2..Len(s) :
                        /\ \A k \in 3..n : goes(k)
                        /\ n = Len(s) \/ ~goes(n + 1),
              descending |-> descending]
\* binarysort: where pivot goes in s[l:r], by halving
RECURSIVE binarysort(_, _, _, _, _)
binarysort(s, key, pivot, l, r) ==
    LET p == l + ((r - l) \div 2)
        below == RatLess(key[pivot], key[s[p + 1]])
        l2 == IF below THEN l ELSE p + 1
        r2 == IF below THEN p ELSE r
    IN  IF l2 < r2 THEN binarysort(s, key, pivot, l2, r2) ELSE l2
\* the first m elements of s, sorted ascending (m at least the head run)
RECURSIVE list_sort(_, _, _)
list_sort(s, key, m) ==
    LET run == count_run(s, key)
    IN  IF m <= run.n
        THEN IF run.descending THEN [i \in 1..m |-> s[m + 1 - i]] ELSE Head0(s, m)
        ELSE LET out == list_sort(s, key, m - 1)
                 p == binarysort(out, key, s[m], 0, m - 1)
             IN  Head0(out, p) \o <<s[m]>> \o Tail0(out, p)
\* sorted(..., key=..., reverse=True) on the indices ix: the list is
\* reversed, sorted ascending and reversed again
SortedDesc(ix, key) ==
    LET Reverse(s) == [i \in 1..Len(s) |-> s[Len(s) + 1 - i]]
    IN  Reverse(list_sort(Reverse(ix), key, Len(ix)))
\* the indices of s, ascending, whose element passes: [i for ... if ...]
RECURSIVE Indices(_, _)
Indices(n, keep) ==
    IF n = 0 THEN <<>>
    ELSE IF n \in keep THEN Append(Indices(n - 1, keep), n) ELSE Indices(n - 1, keep)

\* python calculate-civic-scores.py: read the CSV into a list of rows
ScoreStart ==
    /\ Stopped
    /\ prog' = "calculate-civic-scores"
    /\ pc' = "rows"
    /\ buildings' = csvFile.rows
    /\ idx' = 1
    /\ catalog' = Nothing
    /\ ranking' = <<>>
    /\ err' = NoError
    /\ UNCHANGED <<csvFile, jsonFile, parseVars, calcVars, boardVars>>

\* one pass of "for building in buildings"
ScoreRow ==
    /\ prog = "calculate-civic-scores" /\ pc = "rows"
    /\ idx <= Len(buildings)
    /\ LET b == buildings[idx]
           scored == calculate_civic_score(b)
       IN  \/ /\ "id" \notin DOMAIN b
              /\ err' = KeyError("id")
              /\ pc' = "exit1"
              /\ UNCHANGED <<buildings, idx>>
           \/ /\ "id" \in DOMAIN b
              /\ skip_row(b)
              /\ idx' = idx + 1
              /\ UNCHANGED <<buildings, pc, err>>
           \/ /\ "id" \in DOMAIN b
              /\ ~skip_row(b)
              /\ ~scored.ok
              /\ err' = [error |-> scored.error, msg |-> scored.msg]
              /\ pc' = "exit1"
              /\ UNCHANGED <<buildings, idx>>
           \/ /\ "id" \in DOMAIN b
              /\ ~skip_row(b)
              /\ scored.ok
              /\ buildings' = [buildings EXCEPT
                                 ![idx] = SetKey(b, "civicScore", FloatRepr(scored.score))]
              /\ IF Lacks(b, <<"name", "category">>)
                 THEN /\ err' = KeyError(FirstMissing(b, <<"name", "category">>))
                      /\ pc' = "exit1"
                      /\ UNCHANGED idx
                 ELSE /\ idx' = idx + 1
                      /\ UNCHANGED <<pc, err>>
    /\ UNCHANGED <<prog, csvFile, jsonFile, catalog, ranking, parseVars, calcVars, boardVars>>

\* buildings_sorted: the rows with an id, by float(civicScore), highest first
ScoreRank ==
    /\ prog = "calculate-civic-scores" /\ pc = "rows"
    /\ idx > Len(buildings)
    /\ LET withId == {i \in DOMAIN buildings : buildings[i]["id"] # <<>>}
           key == [i \in withId |-> FloatValue(buildings[i]["civicScore"])]
       IN  ranking' = SortedDesc(Indices(Len(buildings), withId), key)
    /\ pc' = "write"
    /\ UNCHANGED <<prog, csvFile, jsonFile, buildings, catalog, idx, err,
                   parseVars, calcVars, boardVars>>

\* csv.DictWriter(f, fieldnames).writerows(buildings) on the truncated file:
\* a row with a key that is no fieldname raises ValueError, after the rows
\* before it were written
ScoreWrite ==
    /\ prog = "calculate-civic-scores" /\ pc = "write"
    /\ LET extra == {i \in DOMAIN buildings :
                        ~(DOMAIN buildings[i] \subseteq Range(csvFile.fieldnames))}
       IN  \/ /\ extra = {}
              /\ csvFile' = [csvFile EXCEPT !.rows = buildings]
              /\ pc' = "exit0"
              /\ UNCHANGED err
           \/ /\ extra # {}
              /\ csvFile' = [csvFile EXCEPT !.rows =
                                Head0(buildings, (CHOOSE i \in extra : \A j \in extra : i <= j) - 1)]
              /\ pc' = "exit1"
              /\ err' = [error |-> "ValueError", msg |-> "dict contains fields not in fieldnames"]
    /\ UNCHANGED <<prog, jsonFile, buildings, catalog, ranking, idx,
                   parseVars, calcVars, boardVars>>

(***************************************************************************)
(* The two scripts run, one at a time and in any order, on one CSV file of *)
(* at most MaxRows data rows.                                              *)
(***************************************************************************)
BaseRow ==
    [c \in Range(Columns) |->
        CASE c = "name" -> <<"N">>
          [] c = "graphicsFile" -> <<"a", "/", "b", ".", "s", "v", "g">>
          [] c = "isDefault" -> <<"t", "r", "u", "e">>
          [] c = "buildCost" -> <<"1", "0", "0">>
          [] c = "constructionDays" -> <<"3">>
          [] c = "maxRevenue" -> <<"2", ".", "5">>
          [] c = "decayRate" -> <<"0", ".", "5">>
          [] c = "jobsProvided" -> <<"5">>
          [] OTHER -> <<>>]
Override(row, ov) == [c \in DOMAIN row |-> IF c \in DOMAIN ov THEN ov[c] ELSE row[c]]
\* the stored score and the livability fields of a row
Profiles == {
    ("civicScore" :> <<"7">>) @@ ("culture_impact" :> <<"1", "0">>)
        @@ ("culture_attenuation" :> <<"4">>),
    ("civicScore" :> <<>>) @@ ("noise_impact" :> <<"2", ".", "5">>)
        @@ ("noise_attenuation" :> <<"1", "6">>),
    ("civicScore" :> <<"1", ".", "5">>) @@ ("safety_impact" :> <<"a", "b", "c">>) }
BlankProfile == ("civicScore" :> <<"7">>) @@ ("culture_impact" :> <<"1", "0">>)
Ids == {<<"a">>, <<"b">>}
Categories == {<<"x">>, <<"y">>}
NumericProfiles == {p \in Profiles : "safety_impact" \notin DOMAIN p}
RowPool ==
    {Override(BaseRow, ("id" :> i) @@ ("category" :> c) @@ p) :
        i \in Ids, c \in Categories, p \in NumericProfiles}
    \cup {Override(BaseRow, ("id" :> <<"a">>) @@ ("category" :> <<"x">>) @@ p) :
            p \in Profiles \ NumericProfiles}
    \cup {Override(BaseRow, ("id" :> <<>>) @@ ("category" :> c) @@ BlankProfile) :
            c \in Categories}
Droppable == {"id", "category", "civicScore"}
Without(seq, c) == LET Keep(x) == x # c IN SelectSeq(seq, Keep)
Headers == {Columns} \cup {Without(Columns, c) : c \in Droppable}
Restrict(row, fields) == [c \in fields |-> row[c]]
CsvFiles ==
    {[exists |-> TRUE, fieldnames |-> h,
      rows |-> [i \in DOMAIN rs |-> Restrict(rs[i], Range(h))]] :
        h \in Headers, rs \in UNION {[1..n -> RowPool] : n \in 0..MaxRows}}

InitFiles ==
    /\ prog = "shell"
    /\ pc = "idle"
    /\ csvFile \in CsvFiles
    /\ jsonFile = NoFile
    /\ buildings = <<>>
    /\ catalog = Nothing
    /\ ranking = <<>>
    /\ idx = 0
    /\ err = NoError
    /\ IdleParse /\ IdleCalc /\ IdleBoard

NextFiles ==
    \/ CatalogStart
    \/ CatalogRow
    \/ CatalogWrite
    \/ ScoreStart
    \/ ScoreRow
    \/ ScoreRank
    \/ ScoreWrite
SpecFiles == InitFiles /\ [][NextFiles]_vars
(***************************************************************************)
(* What the specification says of the catalog build.                       *)
(***************************************************************************)
\* csv-to-json.py is in its loop or has returned its catalog
InCatalogRun == prog = "csv-to-json" /\ pc \in {"rows", "exit0"}
CatalogReturned == prog = "csv-to-json" /\ pc = "exit0"
CatalogEnded == prog = "csv-to-json" /\ pc \in {"exit0", "exit1"}
\* the rows read so far that have an id
Kept == {j \in 1..(idx - 1) : csvFile.rows[j]["id"] # <<>>}
KeptIn(category) == {j \in Kept : csvFile.rows[j]["category"] = category}
FirstRow(category) == CHOOSE j \in KeptIn(category) : \A k \in KeptIn(category) : j <= k
\* the places of the catalog: <<p, m>> is the m-th record of the p-th category
Places == {pm \in (DOMAIN catalog.keys) \X (1..Len(csvFile.rows)) :
               pm[2] <= Len(catalog.items[pm[1]])}
\* the record of the j-th row (j in Kept)
RecordOfRow(j) ==
    LET category == csvFile.rows[j]["category"]
    IN  catalog.items[KeyAt(catalog, category)]
                     [Cardinality({k \in KeptIn(category) : k <= j})]
MissingColumns == Range(Columns) \ Range(csvFile.fieldnames)

\* C1: the civicScore of the record of a row with an id is the score the
\* calculator gives for the row's six dimensions, whatever its civicScore
\* column holds.
C1_ScoreIsRecalculated ==
    InCatalogRun =>
        \A j \in Kept :
            LET scored == calculate_civic_score(csvFile.rows[j])
            IN  scored.ok => RecordOfRow(j).civicScore = PyFloat(scored.score)

\* C4: at every point of the loop and at its end, the catalog holds one
\* record per row read that has an id and none for the others; the keys are
\* the categories of those rows in order of first appearance, and each
\* category's sequence is its rows' records in input order.
C4_GroupedInInputOrder ==
    InCatalogRun =>
        /\ Cardinality(Places) = Cardinality(Kept)
        /\ Range(catalog.keys) = {csvFile.rows[j]["category"] : j \in Kept}
        /\ \A p, q \in DOMAIN catalog.keys :
               p < q => /\ catalog.keys[p] # catalog.keys[q]
                        /\ FirstRow(catalog.keys[p]) < FirstRow(catalog.keys[q])
        /\ Len(catalog.items) = Len(catalog.keys)
        /\ \A p \in DOMAIN catalog.keys :
               LET of == Indices(idx - 1, KeptIn(catalog.keys[p]))
               IN  /\ Len(catalog.items[p]) = Len(of)
                   /\ \A m \in DOMAIN of :
                          catalog.items[p][m] = building_record(csvFile.rows[of[m]])
\* a row without an id was read first and a row with an id after it: one
\* record, and no key for the category of the first
C4_Witness ==
    /\ CatalogReturned
    /\ Len(csvFile.rows) = 2
    /\ csvFile.rows[1]["id"] = <<>>
    /\ csvFile.rows[2]["id"] # <<>>
    /\ csvFile.rows[1]["category"] \notin Range(catalog.keys)
    /\ Len(catalog.keys) = 1
    /\ Len(catalog.items[1]) = 1

\* C5 (as claimed): a run on a CSV that lacks a required column ends with a
\* KeyError naming a missing column and leaves no catalog and no output
\* file; any other run transforms every row that has an id.
C5_AllOrNothing ==
    CatalogEnded =>
        IF MissingColumns # {}
        THEN /\ pc = "exit1"
             /\ err.error = "KeyError"
             /\ err.key \in MissingColumns
             /\ catalog = Nothing
             /\ ~jsonFile.exists
        ELSE /\ pc = "exit0"
             /\ Cardinality(Places) = Cardinality(Kept)
             /\ jsonFile = [exists |-> TRUE, data |-> catalog]

\* C9 (as claimed): no record has an empty id and no two records, of any
\* categories, share an id.
C9_IdsUnique ==
    InCatalogRun =>
        /\ \A pm \in Places : catalog.items[pm[1]][pm[2]].id # <<>>
        /\ \A pm, qn \in Places :
               pm # qn => catalog.items[pm[1]][pm[2]].id # catalog.items[qn[1]][qn[2]].id

\* C9 (amended): no record has an empty id, and no two records share an id
\* when no two of the rows read that have an id share one.
C9_IdsUniqueWhenInputIs ==
    InCatalogRun =>
        /\ \A pm \in Places : catalog.items[pm[1]][pm[2]].id # <<>>
        /\ (\A j, k \in Kept : j # k => csvFile.rows[j]["id"] # csvFile.rows[k]["id"])
           => \A pm, qn \in Places :
                  pm # qn => catalog.items[pm[1]][pm[2]].id # catalog.items[qn[1]][qn[2]].id
\* a catalog of two categories, one record each, with different ids
C9_Witness ==
    /\ CatalogReturned
    /\ Len(catalog.keys) = 2
    /\ Cardinality(Places) = 2
    /\ catalog.items[1][1].id # catalog.items[2][1].id
(***************************************************************************)
(* fix-leaderboard-display.py: the row template it writes into             *)
(* updateLeaderboard (new_code).  A JavaScript value is undefined, null, a *)
(* boolean, a number (finite, or NaN) or a string.  The sort of the        *)
(* participants and rankSuffix are code of ui-manager.js, which is not     *)
(* among the sources:                                                      *)
(* they follow the specification (4.4, steps 2 to 5).                     *)
(***************************************************************************)
Undefined == [t |-> "undefined"]
JsNumber(q) == [t |-> "number", v |-> q]
JsString(s) == [t |-> "string", v |-> s]
JsNull == [t |-> "null"]

\* isNaN(x), on undefined and numbers
isNaN(x) == x.t = "undefined" \/ (x.t = "number" /\ IsNaNRat(x.v))
\* Number.prototype.toFixed(1): the nearest tenth, the larger n on a tie,
\* the sign set apart
toFixed1(q) ==
    IF IsNaNRat(q) THEN <<"N", "a", "N">>
    ELSE LET n == Floor(20 * Abs(q.n) + q.d, 2 * q.d)
         IN  (IF q.n < 0 THEN <<"-">> ELSE <<>>)
             \o NatText(n \div 10) \o <<".", DigitChar(n % 10)>>

\* (mutant) the isNaN test left out
display_score_NoNaNTest(x) == IF x # Undefined THEN toFixed1(x.v) ELSE <<"0", ".", "0">>
\* (x !== undefined && !isNaN(x)) ? x.toFixed(1) : '0.0', on undefined and
\* numbers: the metrics of a participant are no other values here
display_score(x) ==
    IF x # Undefined /\ ~isNaN(x) THEN toFixed1(x.v) ELSE <<"0", ".", "0">>

\* ToBoolean: undefined, null, false, 0, NaN and "" are falsy
ToBoolean(x) ==
    CASE x.t = "undefined" -> FALSE
      [] x.t = "null" -> FALSE
      [] x.t = "boolean" -> x.v
      [] x.t = "number" -> ~IsNaNRat(x.v) /\ x.v.n # 0
      [] x.t = "string" -> x.v # <<>>
\* Number::toString(x): the digits as above, in fixed notation for
\* 1e-6 <= |x| < 1e21 and without a point behind an integer, otherwise
\* d.ddde-X
JsNotation(sd) ==
    IF sd.decpt > -6 /\ sd.decpt <= 21
    THEN FixedNotation(sd.digits, sd.decpt, <<>>)
    ELSE ExpMantissa(sd.digits) \o <<"e">>
         \o (IF sd.decpt < 1 THEN <<"-">> ELSE <<"+">>)
         \o NatText(Abs(sd.decpt - 1))
NumberToString(q) ==
    IF IsNaNRat(q) THEN <<"N", "a", "N">>
    ELSE IF q.d = 0 THEN (IF q.n < 0 THEN <<"-">> ELSE <<>>)
                         \o <<"I", "n", "f", "i", "n", "i", "t", "y">>
    ELSE IF q.n = 0 THEN <<"0">>
    ELSE (IF q.n < 0 THEN <<"-">> ELSE <<>>) \o JsNotation(ShortestDigits(q))
\* ToString, as the template literal applies it
JsToString(x) ==
    CASE x.t = "undefined" -> <<"u", "n", "d", "e", "f", "i", "n", "e", "d">>
      [] x.t = "null" -> <<"n", "u", "l", "l">>
      [] x.t = "boolean" -> (IF x.v THEN TrueWord ELSE FalseWord)
      [] x.t = "string" -> x.v
      [] x.t = "number" -> NumberToString(x.v)
\* ${playerScore.playerName || 'Player'}
display_name(x) ==
    IF ToBoolean(x) THEN JsToString(x) ELSE <<"P", "l", "a", "y", "e", "r">>

\* ${index + 1}
rank_of(index) == NatText(index + 1)

\* the ordinal suffix of a rank
rankSuffix(n) ==
    IF n % 100 \in {11, 12, 13} THEN <<"t", "h">>
    ELSE CASE n % 10 = 1 -> <<"s", "t">>
           [] n % 10 = 2 -> <<"n", "d">>
           [] n % 10 = 3 -> <<"r", "d">>
           [] OTHER -> <<"t", "h">>

\* row.innerHTML: the texts of the five cells
leaderboard_row(playerScore, index) ==
    [rank |-> rank_of(index),
     suffix |-> rankSuffix(index + 1),
     player |-> display_name(playerScore.playerName),
     wealth |-> display_score(playerScore.wealthScore),
     civic |-> display_score(playerScore.civicScore),
     score |-> display_score(playerScore.score)]

\* (mutant) the lowest score first
score_key_Ascending(playerScore) ==
    IF playerScore.score = Undefined \/ isNaN(playerScore.score) THEN RatInt(0)
    ELSE RatNeg(playerScore.score.v)
\* the key of the sort (4.4, steps 2 and 3): the score the participant
\* brings, and wealthScore + civicScore when it brings none; an undefined
\* or not-a-number metric counts as zero in the sum and in the comparison
score_key(playerScore) ==
    LET counted(x) == IF isNaN(x) THEN RatInt(0) ELSE x.v
    IN  IF playerScore.score # Undefined THEN counted(playerScore.score)
        ELSE RatAdd(counted(playerScore.wealthScore),
                    counted(playerScore.civicScore))

\* the participants are sorted by score, highest first
SortPlayers ==
    /\ prog = "leaderboard" /\ pc = "sort"
    /\ order' = SortedDesc(Indices(Len(players), DOMAIN players),
                           [i \in DOMAIN players |-> score_key(players[i])])
    /\ pc' = "render"
    /\ idx' = 0
    /\ UNCHANGED <<prog, players, lbRows, csvFile, jsonFile, buildings, catalog,
                   ranking, err, parseVars, calcVars>>

\* one pass of the forEach over the sorted participants
RenderRow ==
    /\ prog = "leaderboard" /\ pc = "render"
    /\ idx < Len(order)
    /\ lbRows' = Append(lbRows, leaderboard_row(players[order[idx + 1]], idx))
    /\ idx' = idx + 1
    /\ UNCHANGED <<prog, pc, players, order, csvFile, jsonFile, buildings, catalog,
                   ranking, err, parseVars, calcVars>>

Num(n, d) == JsNumber(Rat(n, d))
PlayerPool == {
    [playerName |-> JsString(<<"A">>), wealthScore |-> Num(30, 1),
     civicScore |-> Num(20, 1), score |-> Num(50, 1)],
    [playerName |-> JsNull, wealthScore |-> JsNumber(NaN),
     civicScore |-> Num(80, 1), score |-> Num(80, 1)],
    [playerName |-> Num(5, 2), wealthScore |-> Num(9, 4),
     civicScore |-> Undefined, score |-> Num(80, 1)],
    [playerName |-> Undefined, wealthScore |-> Num(-5, 4),
     civicScore |-> Num(45, 4), score |-> Num(10, 1)],
    [playerName |-> Num(0, 1), wealthScore |-> Num(5, 1),
     civicScore |-> JsNumber(NaN), score |-> Undefined],
    [playerName |-> JsString(<<>>), wealthScore |-> Undefined,
     civicScore |-> Num(1, 8), score |-> JsNumber(NaN)] }

InitBoard ==
    /\ prog = "leaderboard"
    /\ pc = "sort"
    /\ players \in UNION {[1..n -> PlayerPool] : n \in 0..MaxPlayers}
    /\ order = <<>>
    /\ lbRows = <<>>
    /\ csvFile = NoFile
    /\ jsonFile = NoFile
    /\ buildings = <<>>
    /\ catalog = Nothing
    /\ ranking = <<>>
    /\ idx = 0
    /\ err = NoError
    /\ IdleParse /\ IdleCalc

NextBoard == SortPlayers \/ RenderRow
SpecBoard == InitBoard /\ [][NextBoard]_vars
(***************************************************************************)
(* What the specification says of the leaderboard.                         *)
(***************************************************************************)
Rendering == prog = "leaderboard" /\ pc = "render"
\* the participant shown in the i-th row
Shown(i) == players[order[i]]
Invalid(x) == x = Undefined \/ (x.t = "number" /\ IsNaNRat(x.v))
\* text is a number with one digit after the point, at most 0.05 from q
OneDecimalOf(text, q) ==
    /\ Len(text) >= 3
    /\ text[Len(text) - 1] = "."
    /\ FloatParses(text)
    /\ LET diff == RatAdd(FloatValue(text), RatNeg(q))
       IN  20 * Abs(diff.n) <= diff.d
ShownAs(text, x) ==
    IF Invalid(x) THEN text = <<"0", ".", "0">> ELSE OneDecimalOf(text, x.v)
\* the three score cells of the rows, each with the metric it shows
Cells ==
    UNION {{<<lbRows[i].wealth, Shown(i).wealthScore>>,
            <<lbRows[i].civic, Shown(i).civicScore>>,
            <<lbRows[i].score, Shown(i).score>>} : i \in DOMAIN lbRows}

\* C7: each of the three score cells of a row shows "0.0" when its own
\* metric is undefined or not-a-number and the metric to one decimal
\* otherwise; what a cell shows depends on its own metric alone, and the
\* rendering leaves the participants' metrics as they were.
C7_CellsRendered ==
    Rendering =>
        /\ \A c \in Cells : ShownAs(c[1], c[2])
        /\ \A c, d \in Cells : c[2] = d[2] => c[1] = d[1]
C7_InvalidMetricShowsZero == [](C7_CellsRendered) /\ [][players' = players]_vars
\* a row with a not-a-number wealth score and a valid civic score was
\* rendered, after a row whose wealth score is valid
C7_Witness ==
    /\ Rendering
    /\ \E i, j \in DOMAIN lbRows :
           /\ i # j
           /\ Shown(i).wealthScore = JsNumber(NaN)
           /\ lbRows[i].wealth = <<"0", ".", "0">>
           /\ lbRows[i].civic = <<"8", "0", ".", "0">>
           /\ Shown(i).civicScore = Num(80, 1)
           /\ Shown(j).wealthScore = Num(9, 4)
           /\ lbRows[j].wealth = <<"2", ".", "3">>
           /\ lbRows[j].civic = <<"0", ".", "0">>

\* the participant brings a score that is a number
HasScore(p) == p.score.t = "number" /\ ~IsNaNRat(p.score.v)
\* C10: the order is a permutation of the participants; of two participants
\* that bring a score, the one with the higher score stands first, and of two
\* with the same score the one that came first in the input; the i-th row
\* carries the rank i, so the ranks are 1..n without gaps and no two rows
\* share one. The scores 50, 80, 80, 10 give the order 2, 3, 1, 4 (input
\* positions from 1) and the ranks 1, 2, 3, 4.
Example10 ==
    /\ Len(players) = 4
\* same order with the same fields; a row without an id is as it was, and a
\* row with an id differs from what it was in civicScore at most
WrittenBack(old, new) ==
    /\ new.exists
    /\ new.fieldnames = old.fieldnames
    /\ Len(new.rows) = Len(old.rows)
    /\ \A i \in DOMAIN old.rows :
           /\ DOMAIN new.rows[i] = DOMAIN old.rows[i]
           /\ IF old.rows[i]["id"] = <<>>
              THEN new.rows[i] = old.rows[i]
              ELSE \A c \in DOMAIN old.rows[i] :
                       c # "civicScore" => new.rows[i][c] = old.rows[i][c]
\* every row of the file that has an id holds, in memory, the text of the
\* score the calculator gives for the row as the file has it
AllScored ==
    /\ idx > Len(buildings)
    /\ \A i \in DOMAIN csvFile.rows :
           csvFile.rows[i]["id"] # <<>> =>
               LET scored == calculate_civic_score(csvFile.rows[i])
               IN  /\ scored.ok
                   /\ buildings[i]["civicScore"] = FloatRepr(scored.score)
\* a step of the pass: the write, which comes after every score and puts the
\* rows back, or a step that leaves the file alone
ScorePassStep ==
    (prog' = "calculate-civic-scores" /\ pc # "idle") =>
        IF pc = "write"
        THEN /\ AllScored
             /\ pc' = "exit0"
             /\ WrittenBack(csvFile, csvFile')
        ELSE csvFile' = csvFile

\* C11 (as claimed): the pass changes the file in one step only, the write,
\* which comes after the score of every row with an id was computed and
\* which writes back every row, in input order and with its fields, changed
\* in civicScore at most and not at all when the row has no id; the review
\* sort does not reorder the rows, and a run that fails leaves the file as
\* it was.
C11_RowsWrittenBackInOrder == [][ScorePassStep]_vars
====
